---- MODULE Spec2Model ----
(***************************************************************************)
(* PasteFind front end (src/src/App.jsx): the analysis session kept in the *)
(* React state of App (url, file, loading, recording, result, error), the  *)
(* microphone capture started by startRecording and the requests sent by   *)
(* handleAnalyze and handleMicAnalyze.                                     *)
(*                                                                         *)
(* One action is one browser task: an event handler or a promise           *)
(* continuation runs to its next await without interleaving.  Strings that *)
(* the code inspects (the link text) are sequences of one-character        *)
(* strings, so that the pattern test and includes() are computed.          *)
(***************************************************************************)
EXTENDS Integers, Sequences, FiniteSets, Bags, TLC

(* ------------------------------ bounds -------------------------------- *)

\* capture slots: how many getUserMedia calls / recorders may coexist
MaxCaptures == 2
\* link/file requests of handleAnalyze that may be in flight together
MaxPending == 2

(* --------------------------- character data --------------------------- *)

Lower == {"a","b","c","d","e","f","g","h","i","j","k","l","m",
          "n","o","p","q","r","s","t","u","v","w","x","y","z"}
Upper == {"A","B","C","D","E","F","G","H","I","J","K","L","M",
          "N","O","P","Q","R","S","T","U","V","W","X","Y","Z"}
Digit == {"0","1","2","3","4","5","6","7","8","9"}

\* [\da-z\.-]
HostChars == Digit \cup Lower \cup {".", "-"}
\* [a-z\.]
TldChars == Lower \cup {"."}
\* [\/\w \.-]
PathChars == {"/", " ", ".", "-", "_"} \cup Lower \cup Upper \cup Digit

SchemeHttp == <<"h","t","t","p",":","/","/">>
SchemeHttps == <<"h","t","t","p","s",":","/","/">>
YouTubeCom == <<"y","o","u","t","u","b","e",".","c","o","m">>
YoutuBe == <<"y","o","u","t","u",".","b","e">>

AllIn(s, lo, hi, class) == \A k \in lo..hi : s[k] \in class

StartsWith(s, p) == Len(s) >= Len(p) /\ SubSeq(s, 1, Len(p)) = p

\* String.prototype.includes
includes(s, sub) ==
    \E i \in 1..(Len(s) - Len(sub) + 1) : SubSeq(s, i, i + Len(sub) - 1) = sub

\* ([\da-z\.-]+)\.([a-z\.]{2,6})([\/\w \.-]*)*\/?$ applied to s from
\* position from+1: i is the last host character, i+1 the dot, i+2..j the
\* 2..6 characters of the top-level part, j+1.. the path.
MatchHostTldPath(s, from) ==
    \E i \in (from + 1)..Len(s) :
        /\ AllIn(s, from + 1, i, HostChars)
        /\ i + 1 <= Len(s)
        /\ s[i + 1] = "."
        /\ \E j \in (i + 3)..(i + 7) :
              /\ j <= Len(s)
              /\ AllIn(s, i + 2, j, TldChars)
              /\ AllIn(s, j + 1, Len(s), PathChars)

\* /^(https?:\/\/)?([\da-z\.-]+)\.([a-z\.]{2,6})([\/\w \.-]*)*\/?$/.test(s)
urlPattern(s) ==
    \/ MatchHostTldPath(s, 0)
    \/ StartsWith(s, SchemeHttp) /\ MatchHostTldPath(s, Len(SchemeHttp))
    \/ StartsWith(s, SchemeHttps) /\ MatchHostTldPath(s, Len(SchemeHttps))

\* url.includes('youtube.com') || url.includes('youtu.be')
IsYouTube(s) == includes(s, YouTubeCom) \/ includes(s, YoutuBe)

(* ----------------------------- input data ----------------------------- *)

EmptyUrl == <<>>
\* "a.co"
UrlPlain == <<"a",".","c","o">>
\* "youtu.be/x"
UrlYoutuBe == <<"y","o","u","t","u",".","b","e","/","x">>
\* "https://youtube.com/watch?v=1"
UrlYouTubeWatch ==
    <<"h","t","t","p","s",":","/","/","y","o","u","t","u","b","e",".","c","o","m",
      "/","w","a","t","c","h","?","v","=","1">>
\* "not a url"
UrlWords == <<"n","o","t"," ","a"," ","u","r","l">>

\* the texts the user types into the link field
Urls == {EmptyUrl, UrlPlain, UrlYoutuBe, UrlYouTubeWatch, UrlWords}

NoFile == "null"
Files == {"song.mp3"}

(* ------------------------- messages and payloads ----------------------- *)

\* t.error_mic, t.error_server, t.invalid_link and the literal of line 168
error_mic == "t.error_mic"
error_server == "t.error_server"
invalid_link == "t.invalid_link"
youtube_blocked == "YouTube est bloque cote serveur. Veuillez utiliser l'upload de fichier."
title_unknown == "t.title_unknown"
artist_unknown == "t.artist_unknown"
NoCover == "https://via.placeholder.com/300x300?text=No+Cover"
NoLink == "#"

Undefined == "undefined"
\* the null of useState(null) for result
Null == [null |-> TRUE]

\* a || b on strings: undefined and '' are falsy
OrElse(v, d) == IF v \in {Undefined, ""} THEN d ELSE v

Payload(e, ti, su, im, yt, sp) ==
    [error |-> e, title |-> ti, subtitle |-> su, image |-> im,
     youtube_url |-> yt, spotify_url |-> sp]

PayloadEmpty == Payload(Undefined, Undefined, Undefined, Undefined, Undefined, Undefined)
PayloadSong == Payload(Undefined, "Song", "Artist", "http://x/y.png", Undefined, Undefined)
PayloadError == Payload("No match found", Undefined, Undefined, Undefined, Undefined, Undefined)

\* bodies the backend answers with
Payloads == {PayloadEmpty, PayloadSong, PayloadError}

\* what a fetch can come to: the promise rejects, the status is not 2xx,
\* the body is not JSON, or the body parses to a payload
Outcomes ==
    {[kind |-> "reject"], [kind |-> "notok"], [kind |-> "badjson"]}
    \cup {[kind |-> "json", data |-> p] : p \in Payloads}

\* setResult with ?? in place of || for the two links: an empty string from
\* the server is kept
Normalize_KeepsEmptyLinks(data) ==
    [title |-> OrElse(data.title, title_unknown),
     artist |-> OrElse(data.subtitle, artist_unknown),
     cover_url |-> OrElse(data.image, NoCover),
     youtube_url |-> IF data.youtube_url = Undefined THEN NoLink ELSE data.youtube_url,
     spotify_url |-> IF data.spotify_url = Undefined THEN NoLink ELSE data.spotify_url]

\* the object passed to setResult
Normalize(data) ==
    [title |-> OrElse(data.title, title_unknown),
     artist |-> OrElse(data.subtitle, artist_unknown),
     cover_url |-> OrElse(data.image, NoCover),
     youtube_url |-> OrElse(data.youtube_url, NoLink),
     spotify_url |-> OrElse(data.spotify_url, NoLink)]

(* -------------------------------- state -------------------------------- *)

VARIABLES
    url,        \* useState('')
    file,       \* useState(null)
    loading,    \* useState(false)
    recording,  \* useState(false)
    result,     \* useState(null)
    error,      \* useState('')
    caps,       \* per capture slot: the startRecording call, its stream, recorder and timer
    pending     \* bag of the requests of handleAnalyze awaiting their response

vars == <<url, file, loading, recording, result, error, caps, pending>>

Slots == 1..MaxCaptures

\* st: "free"       no startRecording call uses the slot
\*     "acquiring"  awaiting getUserMedia
\*     "recording"  mediaRecorder.state === 'recording'
\*     "stopped"    the recorder is inactive, its stop event is queued
\*     "uploading"  onstop awaits handleMicAnalyze
\*     "failed"     the catch block ran after the stream was acquired
\* held: the stream's tracks are live; timer: the setTimeout is pending
FreeCap == [st |-> "free", held |-> FALSE, timer |-> FALSE]

IsFree(c) == caps[c] = FreeCap

Init ==
    /\ url = EmptyUrl
    /\ file = NoFile
    /\ loading = FALSE
    /\ recording = FALSE
    /\ result = Null
    /\ error = ""
    /\ caps = [c \in Slots |-> FreeCap]
    /\ pending = EmptyBag

(* ------------------------------ requests ------------------------------- *)

LinkRequest(u) == [endpoint |-> "/api/analyze", url |-> u, file |-> NoFile]
FileRequest(f) == [endpoint |-> "/api/analyze-file", url |-> EmptyUrl, file |-> f]

\* requests in flight: those of handleAnalyze and the uploads of handleMicAnalyze
MicUploads == {c \in Slots : caps[c].st = "uploading"}
Outstanding == BagCardinality(pending) + Cardinality(MicUploads)

(* ------------------------------- controls ------------------------------ *)

\* disabled={!!file || recording}
LinkInputDisabled == file # NoFile \/ recording
\* disabled={recording}
FileInputDisabled == recording
\* disabled={loading || recording}
MicButtonDisabled == loading \/ recording
\* the analyze button without the (!url && !file) term
AnalyzeButtonDisabled_IgnoresInput == loading \/ recording

\* disabled={loading || recording || (!url && !file)}
AnalyzeButtonDisabled == loading \/ recording \/ (url = EmptyUrl /\ file = NoFile)

(* ------------------------------- actions ------------------------------- *)

\* onChange of the link field
SetUrl(v) ==
    /\ ~LinkInputDisabled
    /\ url' = v
    /\ file' = NoFile
    /\ UNCHANGED <<loading, recording, result, error, caps, pending>>

\* handleFileChange without setUrl(''): the chosen file is stored and the
\* link text is left as it was
handleFileChange_KeepsUrl(f) ==
    /\ ~FileInputDisabled
    /\ IF f # NoFile
          THEN file' = f /\ UNCHANGED url
          ELSE UNCHANGED <<file, url>>
    /\ UNCHANGED <<loading, recording, result, error, caps, pending>>

\* onChange of the file field; f = NoFile is a change event with no file
handleFileChange(f) ==
    /\ ~FileInputDisabled
    /\ IF f # NoFile
          THEN file' = f /\ url' = EmptyUrl
          ELSE UNCHANGED <<file, url>>
    /\ UNCHANGED <<loading, recording, result, error, caps, pending>>

\* click on the microphone button: startRecording up to its await
startRecording(c) ==
    /\ ~MicButtonDisabled
    /\ IsFree(c)
    /\ \A d \in Slots : d < c => ~IsFree(d)
    /\ error' = ""
    /\ result' = Null
    /\ url' = EmptyUrl
    /\ file' = NoFile
    /\ caps' = [caps EXCEPT ![c].st = "acquiring"]
    /\ UNCHANGED <<loading, recording, pending>>

\* startRecording with setRecording(true) ahead of the await: a rejected
\* getUserMedia leaves the flag set
GetUserMediaRejected_SetsRecording(c) ==
    /\ caps[c].st = "acquiring"
    /\ error' = error_mic
    /\ recording' = TRUE
    /\ caps' = [caps EXCEPT ![c] = FreeCap]
    /\ UNCHANGED <<url, file, loading, result, pending>>

\* getUserMedia rejects: the catch block
GetUserMediaRejected(c) ==
    /\ caps[c].st = "acquiring"
    /\ error' = error_mic
    /\ caps' = [caps EXCEPT ![c] = FreeCap]
    /\ UNCHANGED <<url, file, loading, recording, result, pending>>

\* getUserMedia resolves, the recorder is built and started, the timer is set
RecordingStarted(c) ==
    /\ caps[c].st = "acquiring"
    /\ recording' = TRUE
    /\ caps' = [caps EXCEPT ![c] = [st |-> "recording", held |-> TRUE, timer |-> TRUE]]
    /\ UNCHANGED <<url, file, loading, result, error, pending>>

\* getUserMedia resolves and new MediaRecorder(stream) or start() throws:
\* the catch block runs with the stream acquired
RecorderSetupFailed(c) ==
    /\ caps[c].st = "acquiring"
    /\ error' = error_mic
    /\ caps' = [caps EXCEPT ![c] = [st |-> "failed", held |-> TRUE, timer |-> FALSE]]
    /\ UNCHANGED <<url, file, loading, recording, result, pending>>

\* the recorder goes inactive before the timer (its tracks ended): the
\* platform queues the stop event
RecorderEnded(c) ==
    /\ caps[c].st = "recording"
    /\ caps' = [caps EXCEPT ![c].st = "stopped"]
    /\ UNCHANGED <<url, file, loading, recording, result, error, pending>>

\* the setTimeout callback without the mediaRecorder.state test: the stop
\* sequence runs again on a recorder that is no longer recording
AutoStop_NoStateTest(c) ==
    /\ caps[c].timer
    /\ caps' = [caps EXCEPT ![c].st = "stopped", ![c].timer = FALSE]
    /\ recording' = FALSE
    /\ UNCHANGED <<url, file, loading, result, error, pending>>

\* the setTimeout callback without setRecording(false): the recorder is
\* stopped and the flag is left set
AutoStop_KeepsFlag(c) ==
    /\ caps[c].timer
    /\ IF caps[c].st = "recording"
          THEN caps' = [caps EXCEPT ![c].st = "stopped", ![c].timer = FALSE]
          ELSE caps' = [caps EXCEPT ![c].timer = FALSE]
    /\ UNCHANGED <<url, file, loading, recording, result, error, pending>>

\* the setTimeout callback
AutoStop(c) ==
    /\ caps[c].timer
    /\ IF caps[c].st = "recording"
          THEN /\ caps' = [caps EXCEPT ![c].st = "stopped", ![c].timer = FALSE]
               /\ recording' = FALSE
          ELSE /\ caps' = [caps EXCEPT ![c].timer = FALSE]
               /\ UNCHANGED recording
    /\ UNCHANGED <<url, file, loading, result, error, pending>>

\* mediaRecorder.onstop up to the await inside handleMicAnalyze
onstop(c) ==
    /\ caps[c].st = "stopped"
    /\ loading' = TRUE
    /\ caps' = [caps EXCEPT ![c].st = "uploading"]
    /\ UNCHANGED <<url, file, recording, result, error, pending>>

\* handleMicAnalyze with setLoading(false) at the end of the try block
\* instead of in finally: the catch path leaves loading set
MicOutcome_NoFinally(o) ==
    IF o.kind # "json"
       THEN error' = error_server /\ UNCHANGED <<result, loading>>
       ELSE /\ IF o.data.error \notin {Undefined, ""}
                  THEN error' = o.data.error /\ UNCHANGED result
                  ELSE result' = Normalize(o.data) /\ UNCHANGED error
            /\ loading' = FALSE

\* state written by handleMicAnalyze once its fetch has settled as o
MicOutcome(o) ==
    /\ IF o.kind # "json"
          THEN error' = error_server /\ UNCHANGED result
          ELSE IF o.data.error \notin {Undefined, ""}
                  THEN error' = o.data.error /\ UNCHANGED result
                  ELSE result' = Normalize(o.data) /\ UNCHANGED error
    /\ loading' = FALSE

\* stream.getTracks().forEach(track => track.stop())
ReleaseTracks(c) == [caps EXCEPT ![c].st = "free", ![c].held = FALSE]

\* the rest of handleMicAnalyze and of onstop
handleMicAnalyze(c, o) ==
    /\ caps[c].st = "uploading"
    /\ MicOutcome(o)
    /\ caps' = ReleaseTracks(c)
    /\ UNCHANGED <<url, file, recording, pending>>

\* handleAnalyze without the urlPattern test: every non-empty text that is
\* not a YouTube link is sent
handleAnalyze_NoShapeCheck ==
    /\ ~AnalyzeButtonDisabled
    /\ result' = Null
    /\ IF file # NoFile
          THEN /\ BagCardinality(pending) < MaxPending
               /\ pending' = pending (+) SetToBag({FileRequest(file)})
               /\ loading' = TRUE
               /\ error' = ""
          ELSE IF url = EmptyUrl
                  THEN loading' = FALSE /\ error' = "" /\ UNCHANGED pending
          ELSE IF IsYouTube(url)
                  THEN loading' = FALSE /\ error' = youtube_blocked /\ UNCHANGED pending
          ELSE /\ BagCardinality(pending) < MaxPending
               /\ pending' = pending (+) SetToBag({LinkRequest(url)})
               /\ loading' = TRUE
               /\ error' = ""
    /\ UNCHANGED <<url, file, recording, caps>>

\* click on the analyze button: handleAnalyze up to its await or return
handleAnalyze ==
    /\ ~AnalyzeButtonDisabled
    /\ result' = Null
    /\ IF file # NoFile
          THEN /\ BagCardinality(pending) < MaxPending
               /\ pending' = pending (+) SetToBag({FileRequest(file)})
               /\ loading' = TRUE
               /\ error' = ""
          ELSE IF url = EmptyUrl
                  THEN loading' = FALSE /\ error' = "" /\ UNCHANGED pending
          ELSE IF ~urlPattern(url)
                  THEN loading' = FALSE /\ error' = invalid_link /\ UNCHANGED pending
          ELSE IF IsYouTube(url)
                  THEN loading' = FALSE /\ error' = youtube_blocked /\ UNCHANGED pending
          ELSE /\ BagCardinality(pending) < MaxPending
               /\ pending' = pending (+) SetToBag({LinkRequest(url)})
               /\ loading' = TRUE
               /\ error' = ""
    /\ UNCHANGED <<url, file, recording, caps>>

\* handleAnalyze sending the request again when it has failed
AnalyzeResponse_Retries(r, o) ==
    /\ BagIn(r, pending)
    /\ pending' = IF o.kind # "json" THEN pending ELSE pending (-) SetToBag({r})
    /\ IF o.kind # "json"
          THEN error' = error_server /\ UNCHANGED result
          ELSE IF o.data.error \notin {Undefined, ""}
                  THEN error' = o.data.error /\ UNCHANGED result
                  ELSE result' = Normalize(o.data) /\ UNCHANGED error
    /\ loading' = FALSE
    /\ UNCHANGED <<url, file, recording, caps>>

\* the rest of handleAnalyze once the fetch of request r has settled as o
AnalyzeResponse(r, o) ==
    /\ BagIn(r, pending)
    /\ pending' = pending (-) SetToBag({r})
    /\ IF o.kind # "json"
          THEN error' = error_server /\ UNCHANGED result
          ELSE IF o.data.error \notin {Undefined, ""}
                  THEN error' = o.data.error /\ UNCHANGED result
                  ELSE result' = Normalize(o.data) /\ UNCHANGED error
    /\ loading' = FALSE
    /\ UNCHANGED <<url, file, recording, caps>>

Next ==
    \/ \E v \in Urls : SetUrl(v)
    \/ \E f \in Files \cup {NoFile} : handleFileChange(f)
    \/ \E c \in Slots : startRecording(c)
    \/ \E c \in Slots : GetUserMediaRejected(c)
    \/ \E c \in Slots : RecordingStarted(c)
    \/ \E c \in Slots : RecorderSetupFailed(c)
    \/ \E c \in Slots : RecorderEnded(c)
    \/ \E c \in Slots : AutoStop(c)
    \/ \E c \in Slots : onstop(c)
    \/ \E c \in Slots, o \in Outcomes : handleMicAnalyze(c, o)
    \/ handleAnalyze
    \/ \E r \in BagToSet(pending), o \in Outcomes : AnalyzeResponse(r, o)

Spec == Init /\ [][Next]_vars

\* the scheduling of the browser: a pending timer fires, a queued stop event
\* is delivered, and a fetch settles
Fairness ==
    \A c \in Slots :
        /\ WF_vars(AutoStop(c))
        /\ WF_vars(onstop(c))
        /\ WF_vars(\E o \in Outcomes : handleMicAnalyze(c, o))

SpecLive == Spec /\ Fairness

(* ------------------------------- claims -------------------------------- *)

\* phase Dispatching is loading = true, phase Recording is recording = true
Dispatching == loading
Recording == recording

Active == {c \in Slots : caps[c].st = "recording"}
Held == {c \in Slots : caps[c].held}

\* C1: result and error are never both set.
C1_ResultErrorExclusive == ~(result # Null /\ error # "")

\* C2: at most one request (link, file or microphone upload) is outstanding
\* at any time.
C2_AtMostOneRequest == Outstanding <= 1

\* C3: whenever the session is Dispatching, result is null and error is empty.
C3_DispatchingClean == Dispatching => (result = Null /\ error = "")

\* C4: in a quiescent state (not Recording, no capture being acquired, running
\* or stopping, no request in flight) no microphone stream is held.
Quiescent ==
    /\ ~Recording
    /\ ~Dispatching
    /\ Outstanding = 0
    /\ \A c \in Slots : caps[c].st \in {"free", "failed"}

C4_DeviceReleasedWhenQuiescent == Quiescent => Held = {}

\* C5: a capture that has started and does not end before its timer is stopped
\* by the timer, which returns the recording flag to false, and the stream of
\* every capture that has started is eventually released.
C5_AutoStopBound ==
    \A c \in Slots :
        /\ (caps[c].st = "recording")
              ~> (caps[c].st # "recording" /\ (~recording \/ caps[c].timer))
        /\ (caps[c].st = "recording") ~> ~caps[c].held

\* C5 witness: the timer has stopped a capture that was still running; the
\* recorder is inactive, its timer is spent and the recording flag is false.
C5_Witness ==
    \E c \in Slots : caps[c].st = "stopped" /\ ~caps[c].timer /\ ~recording

\* C6: at most one capture is active at any time.
C6_AtMostOneCapture == Cardinality(Active) <= 1

\* C7: while Dispatching, no step changes the link text or the chosen file.
C7_InputsFrozenWhileDispatching ==
    [][Dispatching => (url' = url /\ file' = file)]_vars

C9_OnePendingInput == ~(url # EmptyUrl /\ file # NoFile)

\* C9 witness: a file was chosen after a link had been typed and submitted
\* (its validation error is still shown); the link text is cleared.
C9_Witness == file # NoFile /\ url = EmptyUrl /\ error = invalid_link

\* C10: submitting a YouTube link in link mode sends no request and ends with
\* the blocked-provider error, result null and loading false.
C10_YouTubeBlocked ==
    [][(handleAnalyze /\ file = NoFile /\ IsYouTube(url))
          => (/\ pending' = pending
              /\ error' = youtube_blocked
              /\ result' = Null
              /\ loading' = FALSE)]_vars

\* the host of a link is that of a blocked provider: after an optional
\* scheme the text is youtube.com or youtu.be, followed by nothing or by a
\* path, query or fragment
BlockedHost(u) ==
    \E scheme \in {<<>>, SchemeHttp, SchemeHttps}, h \in {YouTubeCom, YoutuBe} :
        /\ StartsWith(u, scheme \o h)
        /\ Len(u) > Len(scheme \o h) => u[Len(scheme \o h) + 1] \in {"/", "?", "#"}

\* C11: a link whose host is a blocked provider, whatever its path and query,
\* is classified Blocked when submitted in link mode: the session is Failed
\* with the blocked-provider error and not with the invalid-link error.
C11_BlockedHostIsBlocked ==
    [][(handleAnalyze /\ file = NoFile /\ BlockedHost(url))
          => (error' = youtube_blocked /\ result' = Null)]_vars

(* ------------------- link texts and payloads at large ------------------ *)

\* link texts put together from a scheme, a host, a top-level part and a
\* rest; the empty text and texts of blanks only are among them
SchemeParts == {<<>>, SchemeHttp, SchemeHttps, <<"f","t","p",":","/","/">>}
HostParts == {<<>>, <<"a">>, <<"A">>, <<" ">>,
              <<"y","o","u","t","u","b","e">>, <<"y","o","u","t","u">>}
TldParts == {<<>>, <<".","c","o","m">>, <<".","b","e">>, <<".","c">>}
RestParts == {<<>>, <<"/","x">>, <<" ","y">>, <<" "," ">>,
              <<"/","w","a","t","c","h","?","v","=","1">>}

LinkTexts ==
    {sc \o h \o t \o r :
        sc \in SchemeParts, h \in HostParts, t \in TldParts, r \in RestParts}

\* a field of the response body: missing, empty or a value
FieldValues(v) == {Undefined, "", v}

AllPayloads ==
    {Payload(e, ti, su, im, yt, sp) :
        e \in FieldValues("No match found"),
        ti \in FieldValues("Song"),
        su \in FieldValues("Artist"),
        im \in FieldValues("http://x/y.png"),
        yt \in FieldValues("http://yt/1"),
        sp \in FieldValues("http://sp/1")}

AllOutcomes ==
    {[kind |-> "reject"], [kind |-> "notok"], [kind |-> "badjson"]}
    \cup {[kind |-> "json", data |-> p] : p \in AllPayloads}

\* one session in link mode with any of the link texts typed, or in file
\* mode with a file chosen
InitInputs ==
    /\ \/ url \in LinkTexts /\ file = NoFile
       \/ url = EmptyUrl /\ file \in Files
    /\ loading = FALSE
    /\ recording = FALSE
    /\ result = Null
    /\ error = ""
    /\ caps = [c \in Slots |-> FreeCap]
    /\ pending = EmptyBag

NextInputs ==
    \/ handleAnalyze
    \/ \E r \in BagToSet(pending), o \in AllOutcomes : AnalyzeResponse(r, o)

\* handleAnalyze and its response alone, over the link texts and payloads at large
SpecInputs == InitInputs /\ [][NextInputs]_vars

C13_NoInputNoStart == (url = EmptyUrl /\ file = NoFile) => ~ENABLED handleAnalyze

\* C13 witness: the inputs were cleared by a click on the microphone button
\* and the device is still being acquired; the session is idle with no input
\* and only the missing input disables the start.
C13_Witness ==
    /\ url = EmptyUrl /\ file = NoFile
    /\ ~loading /\ ~recording
    /\ result = Null /\ error = ""
    /\ Outstanding = 0
    /\ \E c \in Slots : caps[c].st = "acquiring"

\* C14: a switch of mode from Succeeded or Failed (here: choosing a file, which
\* leaves link mode) clears result and error.
C14_ModeSwitchClearsOutcome ==
    [][(\E f \in Files : handleFileChange(f)) => (result' = Null /\ error' = "")]_vars

\* the capture of slot c is over: its recorder is inactive and its audio
\* object has been handed to handleMicAnalyze or is about to be
Stopped(c) == caps[c].st \in {"stopped", "uploading", "free"}

\* C15: once a capture has stopped, the timer firing is a no-op (nothing but
\* the timer changes); a capture whose audio object has been emitted never
\* returns to recording or emits again, and a released stream is not taken up
\* or released again while the capture's timer is pending.
C15_StopIdempotent ==
    [][\A c \in Slots :
          /\ (AutoStop(c) /\ Stopped(c))
                => /\ caps' = [caps EXCEPT ![c].timer = FALSE]
                   /\ UNCHANGED <<url, file, loading, recording, result, error, pending>>
          /\ (caps[c].timer /\ Stopped(c)) => caps'[c].st # "recording"
          /\ (caps[c].timer /\ caps[c].st \in {"uploading", "free"})
                => caps'[c].st # "stopped"
          /\ (caps[c].timer /\ caps[c].st = "free")
                => (caps'[c].st = "free" /\ ~caps'[c].held)]_vars

\* C15 witness: a capture ended before its timer, its one upload is in
\* flight, and the timer has since fired without effect (the recording flag
\* was not touched and no other capture exists).
C15_Witness ==
    \E c \in Slots :
        /\ caps[c].st = "uploading" /\ ~caps[c].timer /\ recording
        /\ \A d \in Slots \ {c} : IsFree(d)
        /\ Cardinality(MicUploads) = 1

\* C16: when getUserMedia rejects, the attempt ends with the microphone
\* error, the recording flag and loading are left as they were, no request is
\* sent and no recorder or timer exists for the attempt; a capture that
\* failed after acquisition never emits audio, and a capture that started
\* never records the microphone error.
C16_AcquisitionFailure ==
    [][\A c \in Slots :
          /\ GetUserMediaRejected(c)
                => /\ error' = error_mic
                   /\ recording' = recording
                   /\ loading' = loading
                   /\ Outstanding' = Outstanding
                   /\ caps'[c] = FreeCap
          /\ caps[c].st = "failed" => caps'[c].st = "failed"
          /\ (caps[c].st \in {"recording", "stopped", "uploading"} /\ caps'[c] # caps[c])
                => (error' = error_mic => error = error_mic)]_vars

\* C16 witness: getUserMedia was rejected: the microphone error is shown,
\* nothing records, nothing is in flight and no stream is held.
C16_Witness ==
    /\ error = error_mic
    /\ ~recording /\ ~loading
    /\ Outstanding = 0
    /\ \A c \in Slots : IsFree(c)

\* C17: a rejected fetch, a non-2xx status or an unparsable body, for a link,
\* file or microphone request, ends the attempt with the server-connection
\* error, result null and loading false.
C17_TransportFailure ==
    [][\A o \in Outcomes :
          (/\ o.kind # "json"
           /\ \/ \E r \in BagToSet(pending) : AnalyzeResponse(r, o)
              \/ \E c \in Slots : handleMicAnalyze(c, o))
          => (error' = error_server /\ result' = Null /\ loading' = FALSE)]_vars

\* a field of the response body is present and non-empty
Present(v) == v \notin {Undefined, ""}

\* C18: a parsed body with an error field, for a link, file or microphone
\* request, ends the attempt with that string as the error and result null.
C18_ServerError ==
    [][\A o \in Outcomes :
          (/\ o.kind = "json"
           /\ Present(o.data.error)
           /\ \/ \E r \in BagToSet(pending) : AnalyzeResponse(r, o)
              \/ \E c \in Slots : handleMicAnalyze(c, o))
          => (error' = o.data.error /\ result' = Null)]_vars

AllDefaults ==
    [title |-> title_unknown, artist |-> artist_unknown, cover_url |-> NoCover,
     youtube_url |-> NoLink, spotify_url |-> NoLink]

\* res is the complete result the claim describes for the body data
Complete(data, res) ==
    /\ Present(data.title) => res.title = data.title
    /\ ~Present(data.title) => res.title = title_unknown
    /\ Present(data.subtitle) => res.artist = data.subtitle
    /\ ~Present(data.subtitle) => res.artist = artist_unknown
    /\ Present(data.image) => res.cover_url = data.image
    /\ ~Present(data.image) => res.cover_url = NoCover
    /\ Present(data.youtube_url) => res.youtube_url = data.youtube_url
    /\ ~Present(data.youtube_url) => res.youtube_url = NoLink
    /\ Present(data.spotify_url) => res.spotify_url = data.spotify_url
    /\ ~Present(data.spotify_url) => res.spotify_url = NoLink
    /\ \A f \in DOMAIN res : Present(res[f])
    /\ data = PayloadEmpty => res = AllDefaults
    /\ data = PayloadSong
          => res = [title |-> "Song", artist |-> "Artist", cover_url |-> "http://x/y.png",
                    youtube_url |-> NoLink, spotify_url |-> NoLink]

\* C19: a parsed body without an error field always yields a result, and the
\* result is complete: each field is the body's value when present and
\* non-empty and its default otherwise, and no field is empty.
C19_NormalizeComplete ==
    [][\A o \in AllOutcomes :
          (/\ o.kind = "json"
           /\ ~Present(o.data.error)
           /\ \E r \in BagToSet(pending) : AnalyzeResponse(r, o))
          => (/\ result' # Null
              /\ DOMAIN result' = DOMAIN AllDefaults
              /\ Complete(o.data, result')
              /\ error' = error)]_vars

\* C19 witness: the empty body {} was answered to a link request and the
\* result shown consists of the five defaults.
C19_Witness == result = AllDefaults /\ file = NoFile /\ ~loading /\ pending = EmptyBag

\* handleAnalyze is called with an input it accepts
Accepted == file # NoFile \/ (url # EmptyUrl /\ urlPattern(url) /\ ~IsYouTube(url))

\* C20: an accepted start of analysis and a delivered stop event each send
\* exactly one request, no other step sends one, and the step that ends an
\* attempt (loading returns to false) takes its request away without sending
\* another.
C20_OneRequestPerAttempt ==
    [][/\ (handleAnalyze /\ Accepted) => Outstanding' = Outstanding + 1
       /\ (handleAnalyze /\ ~Accepted) => Outstanding' = Outstanding
       /\ (\E c \in Slots : onstop(c)) => Outstanding' = Outstanding + 1
       /\ Outstanding' > Outstanding => (handleAnalyze \/ \E c \in Slots : onstop(c))
       /\ (loading /\ ~loading') => Outstanding' = Outstanding - 1]_vars

\* C20 witness: an attempt has failed with the server-connection error and
\* nothing is in flight or being captured.
C20_Witness ==
    /\ error = error_server
    /\ Outstanding = 0
    /\ ~loading /\ ~recording
    /\ \A c \in Slots : IsFree(c)

\* C21: while the upload of a recording is in flight, the stream of that
\* capture is no longer held.
C21_ReleasedBeforeUpload == \A c \in Slots : caps[c].st = "uploading" => ~caps[c].held

\* the fetch of a request of handleAnalyze settles, in addition to Fairness
SpecResponses ==
    SpecLive /\ WF_vars(\E r \in BagToSet(pending), o \in Outcomes : AnalyzeResponse(r, o))

\* C22: every step that ends handleAnalyze or handleMicAnalyze (a local
\* rejection, or the continuation after the fetch has settled in any way)
\* leaves loading false, and after a settled fetch a result or an error is
\* recorded; whenever loading is true it eventually becomes false.
C22_DispatchingEnds ==
    /\ [][/\ (handleAnalyze /\ ~Accepted) => loading' = FALSE
          /\ \A o \in Outcomes :
                (\/ \E r \in BagToSet(pending) : AnalyzeResponse(r, o)
                 \/ \E c \in Slots : handleMicAnalyze(c, o))
                => (loading' = FALSE /\ (result' # Null \/ error' # ""))]_vars
    /\ loading ~> ~loading

\* C22 witness: a request has failed and its handler has ended: the
\* server-connection error is shown, loading is false again, nothing is in
\* flight and no capture is left.
C22_Witness ==
    /\ error = error_server
    /\ ~loading
    /\ Outstanding = 0
    /\ url = EmptyUrl /\ file = NoFile
    /\ \A c \in Slots : caps[c].st = "free" /\ ~caps[c].held

\* C23: loading is true whenever a request is outstanding.
C23_LoadingWhileOutstanding == Outstanding > 0 => loading

====
